---- MODULE Spec2Model ----
(***************************************************************************)
(* Care Companion demo (src/app.py): the five Demo-Mode report generators  *)
(* and the dispatch helper call_llm_or_demo.                               *)
(*                                                                         *)
(* Text.  A Python str that comes from the user or from the model provider *)
(* (the note, the tone, an error text, a model reply) is a sequence of     *)
(* one-character strings.  A report is a sequence whose elements are       *)
(* either such characters or a literal piece of the source's template text *)
(* (a TLA+ string standing for its characters, never containing a line     *)
(* break); a line break is always the element "\n" of its own, so the      *)
(* number of lines of a text is one more than its "\n" elements.           *)
(* Literal pieces are copied from the source; its non-ASCII                *)
(* characters are written in ASCII (the dashes as "--" and "-", the        *)
(* typographic apostrophe as "'"; the emoji of the titles are left out).   *)
(***************************************************************************)
EXTENDS Integers, Sequences, FiniteSets, TLC

VARIABLES
    note,            \* the caregiver note of the text area (app.py:54)
    typed,           \* how many fragments the user has typed into it
    mode,            \* the run mode radio (app.py:28)
    OpenAI,          \* the provider class, or "None" (app.py:6-9)
    environ,         \* os.environ, as far as the program reads it
    kind,            \* the tool whose button was pressed, "none" before
    demo_args,       \* *demo_args of the invocation
    pc,              \* where the invocation stands
    reply,           \* what the provider answered, "none" before
    out,             \* what call_llm_or_demo returned
    requests,        \* chat.completions.create calls of the invocation
    demoCalls        \* demo_fn calls of the invocation

vars == <<note, typed, mode, OpenAI, environ, kind, demo_args, pc,
          reply, out, requests, demoCalls>>

----------------------------------------------------------------------------
(* Python's str and re primitives, on sequences of characters.             *)

UpperLetters == <<"A","B","C","D","E","F","G","H","I","J","K","L","M","N","O","P","Q","R","S","T","U","V","W","X","Y","Z">> (* ABCDEFGHIJKLMNOPQRSTUVWXYZ *)
LowerLetters == <<"a","b","c","d","e","f","g","h","i","j","k","l","m","n","o","p","q","r","s","t","u","v","w","x","y","z">> (* abcdefghijklmnopqrstuvwxyz *)
Digits       == <<"0","1","2","3","4","5","6","7","8","9">> (* 0123456789 *)

IndexIn(c, s) == IF \E i \in 1..Len(s) : s[i] = c
                 THEN CHOOSE i \in 1..Len(s) : s[i] = c
                 ELSE 0

\* mutant: the text is compared as typed
lower_AsTyped(s) == s

\* str.lower(), str.upper(): letter by letter
lower(s) == [i \in 1..Len(s) |->
               IF IndexIn(s[i], UpperLetters) > 0
               THEN LowerLetters[IndexIn(s[i], UpperLetters)]
               ELSE s[i]]

upper(s) == [i \in 1..Len(s) |->
               IF IndexIn(s[i], LowerLetters) > 0
               THEN UpperLetters[IndexIn(s[i], LowerLetters)]
               ELSE s[i]]

\* p in t
In(p, t) == \E i \in 1..(Len(t) - Len(p) + 1) : SubSeq(t, i, i + Len(p) - 1) = p

\* s.startswith(p)
startswith(s, p) == Len(p) <= Len(s) /\ SubSeq(s, 1, Len(p)) = p

\* the classes \d, \s and \w of re
IsDigit(c) == IndexIn(c, Digits) > 0
IsSpace(c) == c \in {" ", "\n", "\t"}
IsWord(c)  == IsDigit(c) \/ IndexIn(c, LowerLetters) > 0
                         \/ IndexIn(c, UpperLetters) > 0 \/ c = "_"

\* \b before position i (1-based; i = Len + 1 is the end of the text)
WordBoundary(text, i) ==
    LET before == i > 1 /\ IsWord(text[i - 1])
        after  == i <= Len(text) /\ IsWord(text[i])
    IN  before # after

\* int() of a run of digits
RECURSIVE int(_)
int(ds) == IF ds = <<>> THEN 0
           ELSE 10 * int(SubSeq(ds, 1, Len(ds) - 1)) + (IndexIn(ds[Len(ds)], Digits) - 1)

\* "\n".join(lines) and ", ".join(items)
RECURSIVE join(_, _)
join(sep, items) == IF items = <<>> THEN <<>>
                    ELSE IF Len(items) = 1 THEN items[1]
                    ELSE items[1] \o sep \o join(sep, Tail(items))

----------------------------------------------------------------------------
(* _find_bp: re.search(r"\b(\d{2,3})\s*/\s*(\d{2,3})\b", text)             *)

None == <<>>

\* \s* from position i: the position after the longest run of whitespace
RECURSIVE SkipSpace(_, _)
SkipSpace(text, i) == IF i <= Len(text) /\ IsSpace(text[i])
                      THEN SkipSpace(text, i + 1) ELSE i

AllDigits(text, i, n) == i + n - 1 <= Len(text)
                         /\ \A k \in i..(i + n - 1) : IsDigit(text[k])

\* group 2 (n2 digits from position d) and the closing \b
MatchGroup2(text, i, n1, d, n2) ==
    IF AllDigits(text, d, n2) /\ WordBoundary(text, d + n2)
    THEN <<int(SubSeq(text, i, i + n1 - 1)),
           int(SubSeq(text, d, d + n2 - 1)),
           SubSeq(text, i, d + n2 - 1)>>
    ELSE None

\* the slash at position s, then \s*
MatchSlash(text, i, n1, s, n2) ==
    IF s <= Len(text) /\ text[s] = "/"
    THEN MatchGroup2(text, i, n1, SkipSpace(text, s + 1), n2)
    ELSE None

\* the pattern after \b with n1 digits in group 1 and n2 in group 2
MatchTail(text, i, n1, n2) ==
    IF AllDigits(text, i, n1)
    THEN MatchSlash(text, i, n1, SkipSpace(text, i + n1), n2)
    ELSE None

\* mutant: the last success wins
FirstMatch_Last(rs) ==
    IF \A k \in 1..Len(rs) : rs[k] = None THEN None
    ELSE rs[CHOOSE k \in 1..Len(rs) :
                rs[k] # None /\ \A j \in (k + 1)..Len(rs) : rs[j] = None]

\* the first success of a sequence of attempts, None when all fail
FirstMatch(rs) ==
    IF \A k \in 1..Len(rs) : rs[k] = None THEN None
    ELSE rs[CHOOSE k \in 1..Len(rs) :
                rs[k] # None /\ \A j \in 1..(k - 1) : rs[j] = None]

\* one attempt of the pattern at position i; the quantifiers are greedy, so
\* three digits are tried before two, group 1 outermost
MatchAt(text, i) ==
    IF ~WordBoundary(text, i) THEN None
    ELSE FirstMatch(<<MatchTail(text, i, 3, 3), MatchTail(text, i, 3, 2),
                      MatchTail(text, i, 2, 3), MatchTail(text, i, 2, 2)>>)

\* re.search: the attempts go from left to right and the first success wins
_find_bp(text) == FirstMatch([i \in 1..(Len(text) + 1) |-> MatchAt(text, i)])

----------------------------------------------------------------------------
(* _contains_any and sorted(set(...)), used by demo_caregiver_wellbeing    *)

_contains_any(text, phrases) ==
    LET t == lower(text)
        hit(p) == In(p, t)
    IN  SelectSeq(phrases, hit)

\* the characters of the strain phrases in code-point order
CodeOrder == <<"'","a","b","c","d","e","f","g","h","i","j","k","l","m","n","o","p","q","r","s","t","u","v","w","x","y","z">> (* 'abcdefghijklmnopqrstuvwxyz *)

\* a < b for two str
RECURSIVE StrLess(_, _)
StrLess(a, b) == IF b = <<>> THEN FALSE
                 ELSE IF a = <<>> THEN TRUE
                 ELSE IF a[1] = b[1] THEN StrLess(Tail(a), Tail(b))
                 ELSE IndexIn(a[1], CodeOrder) < IndexIn(b[1], CodeOrder)

\* sorted(set(items))
RECURSIVE SortSet(_)
SortFrom(S, least) == <<least>> \o SortSet(S \ {least})

SortSet(S) == IF S = {} THEN <<>>
              ELSE SortFrom(S, CHOOSE x \in S : \A y \in S \ {x} : StrLess(x, y))

sorted_set(items) == SortSet({items[i] : i \in 1..Len(items)})

----------------------------------------------------------------------------
(* demo_risk_radar                                                         *)

\* the list risks after the six rules: (title, evidence, severity)
Risks(t, bp) ==
        (IF bp # None /\ (bp[1] <= 90 \/ bp[2] <= 60)
         THEN << <<"Low blood pressure reading",
                   <<"Evidence: '">> \o bp[3] \o <<"'">>, "monitor_closely">> >>
         ELSE <<>>)
     \o (IF In(<<"d","i","z","z","y">> (* dizzy *), t) \/ In(<<"d","i","z","z","i","n","e","s","s">> (* dizziness *), t) \/ In(<<"l","i","g","h","t","h","e","a","d","e","d">> (* lightheaded *), t)
         THEN << <<"Dizziness on standing",
                   <<"Evidence: 'dizzy / standing' mentioned">>, "monitor_closely">> >>
         ELSE <<>>)
     \o (IF In(<<"s","h","o","r","t"," ","o","f"," ","b","r","e","a","t","h">> (* short of breath *), t) \/ In(<<"d","i","f","f","i","c","u","l","t","y"," ","b","r","e","a","t","h","i","n","g">> (* difficulty breathing *), t)
         THEN << <<"Breathing difficulty",
                   <<"Evidence: 'short of breath' mentioned">>, "consider_urgent">> >>
         ELSE <<>>)
     \o (IF In(<<"c","h","e","s","t"," ","p","a","i","n">> (* chest pain *), t) \/ In(<<"f","a","i","n","t","e","d">> (* fainted *), t) \/ In(<<"p","a","s","s","e","d"," ","o","u","t">> (* passed out *), t)
         THEN << <<"Potential emergency symptom",
                   <<"Evidence: chest pain/fainting mentioned">>, "consider_urgent">> >>
         ELSE <<>>)
     \o (IF In(<<"f","e","l","l">> (* fell *), t) \/ In(<<"t","r","i","p">> (* trip *), t) \/ In(<<"w","a","l","k","e","r">> (* walker *), t)
         THEN << <<"Fall risk",
                   <<"Evidence: fall/trip/walker mentioned">>, "monitor_closely">> >>
         ELSE <<>>)
     \o (IF In(<<"v","e","r","y"," ","l","i","t","t","l","e"," ","w","a","t","e","r">> (* very little water *), t) \/ In(<<"d","r","a","n","k"," ","l","e","s","s">> (* drank less *), t) \/ In(<<"d","e","h","y","d","r">> (* dehydr *), t)
         THEN << <<"Low hydration risk",
                   <<"Evidence: low water intake mentioned">>, "monitor">> >>
         ELSE <<>>)

\* t = note_text.lower(), bp = _find_bp(note_text)
RiskFindings(note_text) == Risks(lower(note_text), _find_bp(note_text))

\* any(r[2] == level for r in risks)
AnyLevel(risks, level) == \E i \in 1..Len(risks) : risks[i][3] = level

\* mutant: any finding at all makes the urgency moderate
UrgencyOf_AnyFinding(risks) ==
    IF risks = <<>> THEN <<"l","o","w">> (* low *)
    ELSE IF AnyLevel(risks, "consider_urgent") THEN <<"h","i","g","h">> (* high *)
    ELSE <<"m","o","d","e","r","a","t","e">> (* moderate *)

UrgencyOf(risks) ==
    IF risks = <<>> THEN <<"l","o","w">> (* low *)
    ELSE IF AnyLevel(risks, "consider_urgent") THEN <<"h","i","g","h">> (* high *)
    ELSE IF AnyLevel(risks, "monitor_closely") THEN <<"m","o","d","e","r","a","t","e">> (* moderate *)
    ELSE <<"l","o","w">> (* low *)

\* the dict of the severity labels
Tag == [monitor         |-> "Monitor",
        monitor_closely |-> "Monitor closely",
        consider_urgent |-> "Consider urgent care"]

RiskLine(r) == <<"- **", r[1], "** -- *", Tag[r[3]], "*  ", "\n", "  ">> \o r[2]

\* the lines of the report for the list risks and its urgency
RadarLines(risks, urgency) ==
        << <<"## Risk Radar (Demo Mode)">>,
           <<"**Urgency level:** **">> \o upper(urgency) \o <<"**">>,
           <<>> >>
     \o (IF risks # <<>>
         THEN << <<"### Signals detected (non-diagnostic)">> >>
              \o [i \in 1..Len(risks) |-> RiskLine(risks[i])]
         ELSE << <<"- No clear risk signals detected from the note.">> >>)
     \o << <<>>, <<"### What to do next (general)">> >>
     \o (IF urgency = <<"h","i","g","h">> (* high *)
         THEN << <<"- Consider urgent medical care / call clinician, especially if symptoms worsen.">> >>
         ELSE << <<"- Monitor symptoms and repeat key measurements if available (e.g., BP).">>,
                 <<"- Encourage hydration/food if appropriate and safe for the person.">> >>)

RadarReport(risks) == join(<<"\n">>, RadarLines(risks, UrgencyOf(risks)))

demo_risk_radar(note_text) == RadarReport(RiskFindings(note_text))

----------------------------------------------------------------------------
(* demo_action_planner                                                     *)

\* mutant: an empty list is shown as it is
Bullets_NoFallback(items, fallback) == [i \in 1..Len(items) |-> <<"- ", items[i]>>]

\* [f"- {x}" for x in (items or [fallback])]
Bullets(items, fallback) ==
    LET shown == IF items # <<>> THEN items ELSE <<fallback>>
    IN  [i \in 1..Len(shown) |-> <<"- ", shown[i]>>]

\* the lists actions_now, monitor and confirm
ActionsNow(t, bp) ==
        (IF In(<<"d","i","z","z","y">> (* dizzy *), t) \/ In(<<"l","i","g","h","t","h","e","a","d","e","d">> (* lightheaded *), t)
         THEN <<"Help them stand slowly; ensure a safe path to prevent falls.">> ELSE <<>>)
     \o (IF bp # None
         THEN <<"Recheck blood pressure later if you have a monitor.">> ELSE <<>>)
     \o (IF In(<<"v","e","r","y"," ","l","i","t","t","l","e"," ","w","a","t","e","r">> (* very little water *), t) \/ In(<<"d","r","a","n","k"," ","l","e","s","s">> (* drank less *), t)
         THEN <<"Offer fluids in small amounts (if appropriate), and note intake.">> ELSE <<>>)
     \o (IF In(<<"s","k","i","p","p","e","d"," ","b","r","e","a","k","f","a","s","t">> (* skipped breakfast *), t) \/ In(<<"a","t","e"," ","o","n","l","y">> (* ate only *), t)
         THEN <<"Offer a small, easy-to-eat meal/snack if appropriate.">> ELSE <<>>)

Monitor(t, bp) ==
        (IF In(<<"d","i","z","z","y">> (* dizzy *), t) \/ In(<<"l","i","g","h","t","h","e","a","d","e","d">> (* lightheaded *), t)
         THEN <<"Track when dizziness happens (standing, after meds, after meals).">> ELSE <<>>)
     \o (IF bp # None
         THEN <<"Log BP with time and symptoms nearby.">> ELSE <<>>)
     \o (IF In(<<"v","e","r","y"," ","l","i","t","t","l","e"," ","w","a","t","e","r">> (* very little water *), t) \/ In(<<"d","r","a","n","k"," ","l","e","s","s">> (* drank less *), t)
         THEN <<"Urine frequency/color (if comfortable) as a hydration clue.">> ELSE <<>>)
     \o (IF In(<<"s","k","i","p","p","e","d"," ","b","r","e","a","k","f","a","s","t">> (* skipped breakfast *), t) \/ In(<<"a","t","e"," ","o","n","l","y">> (* ate only *), t)
         THEN <<"Food intake today (rough estimate).">> ELSE <<>>)

Confirm(t) ==
    IF In(<<"m","i","s","s","e","d">> (* missed *), t)
    THEN <<"Confirm which medication(s) were missed and when (write it down).">>
    ELSE <<>>

PlannerSchedule ==
    <<"Prepare a short update to share with family/other caregivers.",
      "If symptoms persist/worsen, contact clinician for guidance.">>

PlannerLines(t, bp) ==
        << <<"## Action Planner (Demo Mode)">>, <<"### Do now">> >>
     \o Bullets(ActionsNow(t, bp), "Ensure comfort and safety; address immediate needs.")
     \o << <<>>, <<"### Monitor">> >>
     \o Bullets(Monitor(t, bp), "Track symptoms + timing through the day.")
     \o << <<>>, <<"### Confirm">> >>
     \o Bullets(Confirm(t), "Confirm meds taken/missed and any measurements taken.")
     \o << <<>>, <<"### Schedule / delegate">> >>
     \o [i \in 1..Len(PlannerSchedule) |-> <<"- ", PlannerSchedule[i]>>]

demo_action_planner(note_text) ==
    join(<<"\n">>, PlannerLines(lower(note_text), _find_bp(note_text)))

----------------------------------------------------------------------------
(* demo_doctor_brief                                                       *)

\* the summary line, t being note_text.lower()
BriefSummary(t, bp) ==
        <<"Caregiver reports increased fatigue today with reduced intake/activity. ">>
     \o (IF bp # None THEN <<"BP: ">> \o bp[3] \o <<" (reported)">>
         ELSE <<"BP: not provided">>)
     \o <<". ",
          IF In(<<"d","i","z","z","y">> (* dizzy *), t)
          THEN "Dizziness: yes (reported)" ELSE "Dizziness: not reported",
          ". ",
          IF In(<<"m","i","s","s","e","d">> (* missed *), t)
          THEN "Missed medication dose: yes (reported)"
          ELSE "Missed medication dose: not reported",
          ". ">>
     \o <<"Hydration appears reduced. Mood described as lower/withdrawn.">>

\* the lines appended under "### Pertinent positives"
BriefPositives(t, bp) ==
        (IF bp # None THEN << <<"- Low BP reading reported: ">> \o bp[3] >> ELSE <<>>)
     \o (IF In(<<"d","i","z","z","y">> (* dizzy *), t)
         THEN << <<"- Dizziness when standing reported">> >> ELSE <<>>)
     \o (IF In(<<"m","i","s","s","e","d">> (* missed *), t)
         THEN << <<"- Missed a medication dose reported">> >> ELSE <<>>)
     \o (IF In(<<"v","e","r","y"," ","l","i","t","t","l","e"," ","w","a","t","e","r">> (* very little water *), t) \/ In(<<"d","r","a","n","k"," ","l","e","s","s">> (* drank less *), t)
         THEN << <<"- Reduced hydration reported">> >> ELSE <<>>)

BriefLines(t, bp) ==
        << <<"## Doctor Brief (Demo Mode)">>,
           <<"### Summary (4-6 sentences)">>,
           BriefSummary(t, bp),
           <<>>,
           <<"### Pertinent positives">> >>
     \o BriefPositives(t, bp)
     \o << <<>>,
           <<"### Questions for clinician">>,
           <<"- Could symptoms relate to hydration, medication timing, or blood pressure variability?">>,
           <<"- What parameters should trigger urgent evaluation (e.g., BP thresholds, worsening dizziness)?">>,
           <<"- Any recommended monitoring cadence for BP/symptoms over the next few days?">>,
           <<>>,
           <<"### What to track before visit">>,
           <<"- BP readings with timestamps (if available)">>,
           <<"- Episodes of dizziness (timing, triggers, duration)">>,
           <<"- Food/fluid intake estimate">>,
           <<"- Meds taken/missed with approximate times">> >>

demo_doctor_brief(note_text) ==
    join(<<"\n">>, BriefLines(lower(note_text), _find_bp(note_text)))

----------------------------------------------------------------------------
(* demo_care_circle_msg                                                    *)

\* the list msg before the slice, t being note_text.lower()
CareMsg(t, bp, tone) ==
        << <<"Quick update:">> >>
     \o (IF In(<<"d","i","z","z","y">> (* dizzy *), t)
         THEN << <<"- Had dizziness when standing today.">> >> ELSE <<>>)
     \o (IF bp # None
         THEN << <<"- BP reading reported: ">> \o bp[3] \o <<".">> >> ELSE <<>>)
     \o (IF In(<<"m","i","s","s","e","d">> (* missed *), t)
         THEN << <<"- Missed at least one medication dose (noted).">> >> ELSE <<>>)
     \o << <<"- Next steps: encourage fluids/food if appropriate, recheck BP later, and monitor symptoms.">> >>
     \o (IF startswith(lower(tone), <<"u","r","g","e","n","t">> (* urgent *))
         THEN << <<"If symptoms worsen, we should contact clinician / consider urgent care.">> >>
         ELSE <<>>)

\* msg[:7]
MsgSlice(msg) == SubSeq(msg, 1, IF Len(msg) < 7 THEN Len(msg) ELSE 7)

demo_care_circle_msg(note_text, audience, tone) ==
    join(<<"\n">>,
         << <<"## Care Circle Message (Demo Mode)">>,
            <<"**Audience:** ">> \o audience \o <<" | **Tone:** ">> \o tone,
            <<>>,
            join(<<"\n">>, MsgSlice(CareMsg(lower(note_text), _find_bp(note_text), tone))) >>)

----------------------------------------------------------------------------
(* demo_caregiver_wellbeing                                                *)

StrainPhrases == <<<<"e","x","h","a","u","s","t">> (* exhaust *), <<"o","v","e","r","w","h","e","l","m">> (* overwhelm *), <<"c","a","n","'","t">> (* can't *), <<"t","i","r","e","d">> (* tired *),
                   <<"s","t","r","e","s","s">> (* stress *), <<"b","u","r","n","o","u","t">> (* burnout *), <<"c","r","y">> (* cry *), <<"a","n","x","i","o","u","s">> (* anxious *)>>

\* the line under "### Signals (only if present)"
StrainLine(burnout_phrases) ==
    IF burnout_phrases # <<>>
    THEN <<"- Possible strain cues: ">> \o join(<<","," ">> (* ,  *), sorted_set(burnout_phrases))
    ELSE <<"- No explicit caregiver strain language detected in the note.">>

demo_caregiver_wellbeing(note_text) ==
    LET lines ==
            << <<"## Caregiver Wellbeing (Demo Mode)">>,
               <<"### Signals (only if present)">>,
               StrainLine(_contains_any(lower(note_text), StrainPhrases)),
               <<>>,
               <<"### 10-minute reset plan (practical)">>,
               <<"- Drink water + quick snack.">>,
               <<"- Send a 2-line status update to someone in the care circle.">>,
               <<"- Pick ONE task to do next; park the rest.">>,
               <<>>,
               <<"### Delegate / share load">>,
               <<"- Ask someone to cover: a meal, a 30-minute visit, a pharmacy run, or a check-in call.">>,
               <<"- If nights are tough, rotate shifts (even 2-3 hour blocks).">>,
               <<>>,
               <<"### Boundary reminder">>,
               <<"- You don't have to do everything perfectly. You're aiming for safety + consistency.">> >>
    IN  join(<<"\n">>, lines)

----------------------------------------------------------------------------
(* The widgets' choices and the provider's answers                         *)

ModeChoices == {<<"A","u","t","o"," ","(","O","p","e","n","A","I"," ","i","f"," ","a","v","a","i","l","a","b","l","e",","," ","e","l","s","e"," ","D","e","m","o"," ","M","o","d","e",")">> (* Auto (OpenAI if available, else Demo Mode) *),
                <<"F","o","r","c","e"," ","D","e","m","o"," ","M","o","d","e"," ","(","n","o"," ","A","P","I",")">> (* Force Demo Mode (no API) *)}

AudienceChoices == {<<"F","a","m","i","l","y"," ","g","r","o","u","p"," ","c","h","a","t">> (* Family group chat *), <<"P","a","i","d"," ","c","a","r","e","g","i","v","e","r">> (* Paid caregiver *),
                    <<"N","u","r","s","e","/","c","a","r","e"," ","t","e","a","m">> (* Nurse/care team *), <<"N","e","i","g","h","b","o","r"," ","h","e","l","p","i","n","g"," ","o","u","t">> (* Neighbor helping out *)}

ToneChoices == {<<"W","a","r","m"," ","+"," ","r","e","a","s","s","u","r","i","n","g">> (* Warm + reassuring *), <<"N","e","u","t","r","a","l"," ","+"," ","f","a","c","t","u","a","l">> (* Neutral + factual *),
                <<"U","r","g","e","n","t"," ","(","o","n","l","y"," ","i","f"," ","n","e","e","d","e","d",")">> (* Urgent (only if needed) *)}

\* os.environ without the variable, with it empty, with a key in it
NoEnv == [n \in {} |-> <<>>]
Environs == {NoEnv,
             [OPENAI_API_KEY |-> <<>> (* "" *)],
             [OPENAI_API_KEY |-> <<"s","k","-","t","e","s","t","4","2","9","7">> (* sk-test4297 *)]}

\* os.getenv(name, default)
getenv(name, default) == IF name \in DOMAIN environ THEN environ[name] ELSE default

\* message.content of a completion
ModelTexts == {<<"#","#"," ","R","i","s","k"," ","R","a","d","a","r","\n","U","r","g","e","n","c","y",":"," ","L","O","W">> (* ## Risk Radar\nUrgency: LOW *),
               <<" ","\n","#","#"," ","P","l","a","n","\n","-"," ","R","e","s","t"," ","\n","\n">> (*  \n## Plan\n- Rest \n\n *),
               <<" ","\n"," ">> (*  \n  *),
               <<>> (* "" *)}

\* the failures of chat.completions.create: what went wrong, and str(e)
ProviderErrors ==
    {[condition |-> "quota",
      text |-> <<"E","r","r","o","r"," ","c","o","d","e",":"," ","4","2","9"," ","-"," ","Y","o","u"," ","e","x","c","e","e","d","e","d"," ","y","o","u","r"," ","c","u","r","r","e","n","t"," ","q","u","o","t","a"," ","(","t","y","p","e",":"," ","i","n","s","u","f","f","i","c","i","e","n","t","_","q","u","o","t","a",")">> (* Error code: 429 - You exceeded your current quota (type: insufficient_quota) *)],
     [condition |-> "quota",
      text |-> <<"Y","o","u"," ","e","x","c","e","e","d","e","d"," ","y","o","u","r"," ","c","u","r","r","e","n","t"," ","q","u","o","t","a",","," ","p","l","e","a","s","e"," ","c","h","e","c","k"," ","y","o","u","r"," ","p","l","a","n">> (* You exceeded your current quota, please check your plan *)],
     [condition |-> "rate_limit",
      text |-> <<"E","r","r","o","r"," ","c","o","d","e",":"," ","4","2","9"," ","-"," ","R","a","t","e"," ","l","i","m","i","t"," ","r","e","a","c","h","e","d"," ","f","o","r"," ","g","p","t","-","4","o","-","m","i","n","i">> (* Error code: 429 - Rate limit reached for gpt-4o-mini *)],
     [condition |-> "auth",
      text |-> <<"E","r","r","o","r"," ","c","o","d","e",":"," ","4","0","1"," ","-"," ","I","n","c","o","r","r","e","c","t"," ","A","P","I"," ","k","e","y"," ","p","r","o","v","i","d","e","d",":"," ","s","k","-","t","e","*","*","*","4","2","9","7">> (* Error code: 401 - Incorrect API key provided: sk-te***4297 *)],
     [condition |-> "auth",
      text |-> <<"E","r","r","o","r"," ","c","o","d","e",":"," ","4","0","1"," ","-"," ","I","n","c","o","r","r","e","c","t"," ","A","P","I"," ","k","e","y"," ","p","r","o","v","i","d","e","d",":"," ","s","k","-","t","e","*","*","*","x","9","Q","z">> (* Error code: 401 - Incorrect API key provided: sk-te***x9Qz *)],
     [condition |-> "network",
      text |-> <<"C","o","n","n","e","c","t","i","o","n"," ","e","r","r","o","r",".">> (* Connection error. *)],
     [condition |-> "malformed_request",
      text |-> <<"E","r","r","o","r"," ","c","o","d","e",":"," ","4","0","0"," ","-"," ","I","n","v","a","l","i","d"," ","v","a","l","u","e"," ","f","o","r"," ","'","t","e","m","p","e","r","a","t","u","r","e","'">> (* Error code: 400 - Invalid value for 'temperature' *)],
     [condition |-> "unknown",
      text |-> <<"E","r","r","o","r"," ","c","o","d","e",":"," ","5","0","0"," ","-"," ","T","h","e"," ","s","e","r","v","e","r"," ","h","a","d"," ","a","n"," ","e","r","r","o","r">> (* Error code: 500 - The server had an error *)]}

NoReply == [status |-> "none"]

\* the text the user types into the note, a fragment at a time
Fragments == {<<" ">>, <<"f","e","l","t"," ","d","i","z","z","y",","," ","m","i","s","s","e","d"," ","a"," ","d","o","s","e">> (* felt dizzy, missed a dose *), <<"d","r","a","n","k"," ","l","e","s","s">> (* drank less *), <<"D","e","h","y","d","r","a","t","e","d">> (* Dehydrated *),
              <<"C","h","e","s","t"," ","P","a","i","n">> (* Chest Pain *), <<"F","A","I","N","T","E","D">> (* FAINTED *), <<"p","a","s","s","e","d"," ","o","u","t">> (* passed out *), <<"f","e","l","l">> (* fell *),
              <<"9","0","/","6","0">> (* 90/60 *), <<"1","2","0","/","8","0">> (* 120/80 *), <<" ","9","0","\n","/","\n","6","0">> (*  90\n/\n60 *), <<"1">>, <<"b","p">> (* bp *)}

MaxFragments == 2

\* the notes of the dispatch sessions
SessionNotes == {<<>> (* "" *), <<"F","e","l","t"," ","d","i","z","z","y",","," ","B","P"," ","8","5","/","5","5",","," ","m","i","s","s","e","d"," ","a"," ","d","o","s","e">> (* Felt dizzy, BP 85/55, missed a dose *)}

SelfNotes == {<<>> (* "" *), <<"I"," ","f","e","e","l"," ","e","x","h","a","u","s","t","e","d"," ","t","h","i","s"," ","w","e","e","k">> (* I feel exhausted this week *)}

----------------------------------------------------------------------------
(* llm_available and call_llm_or_demo                                      *)

\* mutant: the run mode is not looked at
llm_available_ModeIgnored ==
    IF OpenAI = "None" THEN FALSE
    ELSE getenv("OPENAI_API_KEY", <<>> (* "" *)) # <<>> (* "" *)

llm_available ==
    IF startswith(mode, <<"F","o","r","c","e"," ","D","e","m","o">> (* Force Demo *)) THEN FALSE
    ELSE IF OpenAI = "None" THEN FALSE
    ELSE getenv("OPENAI_API_KEY", <<>> (* "" *)) # <<>> (* "" *)

\* demo_fn(*demo_args), demo_fn being the generator the tab passes
demo_fn(k, args) ==
    CASE k = "risk_radar"     -> demo_risk_radar(args[1])
      [] k = "action_planner" -> demo_action_planner(args[1])
      [] k = "doctor_brief"   -> demo_doctor_brief(args[1])
      [] k = "care_circle"    -> demo_care_circle_msg(args[1], args[2], args[3])
      [] k = "wellbeing"      -> demo_caregiver_wellbeing(args[1])

\* str.strip()
RECURSIVE lstrip(_)
lstrip(s) == IF s # <<>> /\ IsSpace(s[1]) THEN lstrip(Tail(s)) ELSE s

RECURSIVE rstrip(_)
rstrip(s) == IF s # <<>> /\ IsSpace(s[Len(s)]) THEN rstrip(SubSeq(s, 1, Len(s) - 1)) ELSE s

strip(s) == rstrip(lstrip(s))

\* the test of the except branch on msg = str(e).lower()
IsQuotaText(msg) ==
    \/ In(<<"i","n","s","u","f","f","i","c","i","e","n","t","_","q","u","o","t","a">> (* insufficient_quota *), msg)
    \/ In(<<"e","x","c","e","e","d","e","d"," ","y","o","u","r"," ","c","u","r","r","e","n","t"," ","q","u","o","t","a">> (* exceeded your current quota *), msg)
    \/ In(<<"4","2","9">> (* 429 *), msg)

\* call_llm_or_demo up to the request: the Demo Mode return, or the request sent
Call(k, args) ==
    /\ pc = "idle"
    /\ kind' = k
    /\ demo_args' = args
    /\ IF ~llm_available
       THEN /\ out' = demo_fn(k, args)
            /\ demoCalls' = demoCalls + 1
            /\ pc' = "returned"
            /\ UNCHANGED requests
       ELSE /\ requests' = requests + 1
            /\ pc' = "awaiting"
            /\ UNCHANGED <<out, demoCalls>>
    /\ UNCHANGED <<note, typed, mode, OpenAI, environ, reply>>

\* the five buttons
RunRiskRadar == Call("risk_radar", <<note>>)

GenerateActionPlan == Call("action_planner", <<note>>)

GenerateDoctorBrief == Call("doctor_brief", <<note>>)

GenerateMessage ==
    \E audience \in AudienceChoices, tone \in ToneChoices :
        Call("care_circle", <<note, audience, tone>>)

GenerateWellbeing ==
    \E caregiver_note \in SelfNotes :
        Call("wellbeing", <<note \o <<"\n","\n","C","a","r","e","g","i","v","e","r"," ","n","o","t","e",":"," ">> (* \n\nCaregiver note:  *) \o caregiver_note>>)

\* the completion arrives: its content, stripped, is returned
ModelReturns ==
    /\ pc = "awaiting"
    /\ \E content \in ModelTexts :
          /\ reply' = [status |-> "ok", content |-> content]
          /\ out' = strip(content)
    /\ pc' = "returned"
    /\ UNCHANGED <<note, typed, mode, OpenAI, environ, kind, demo_args, requests, demoCalls>>

\* mutant: a quota failure sends the request again
ModelFails_Retry ==
    /\ pc = "awaiting"
    /\ \E e \in ProviderErrors :
          /\ reply' = [status |-> "error", condition |-> e.condition, text |-> e.text]
          /\ IF IsQuotaText(lower(e.text))
             THEN /\ requests' = requests + 1
                  /\ pc' = "awaiting"
                  /\ UNCHANGED <<out, demoCalls>>
             ELSE /\ pc' = "raised"
                  /\ UNCHANGED <<out, demoCalls, requests>>
    /\ UNCHANGED <<note, typed, mode, OpenAI, environ, kind, demo_args>>

\* the request raises e: the except branch
ModelFails ==
    /\ pc = "awaiting"
    /\ \E e \in ProviderErrors :
          /\ reply' = [status |-> "error", condition |-> e.condition, text |-> e.text]
          /\ IF IsQuotaText(lower(e.text))
             THEN /\ out' = demo_fn(kind, demo_args)
                  /\ demoCalls' = demoCalls + 1
                  /\ pc' = "returned"
             ELSE /\ pc' = "raised"
                  /\ UNCHANGED <<out, demoCalls>>
    /\ UNCHANGED <<note, typed, mode, OpenAI, environ, kind, demo_args, requests>>

\* the next interaction reruns the script: a new invocation starts from nothing
Rerun ==
    /\ pc \in {"returned", "raised"}
    /\ pc' = "idle"
    /\ kind' = "none"
    /\ demo_args' = <<>>
    /\ reply' = NoReply
    /\ out' = <<>>
    /\ requests' = 0
    /\ demoCalls' = 0
    /\ UNCHANGED <<note, typed, mode, OpenAI, environ>>

Init ==
    /\ note \in SessionNotes
    /\ typed = 0
    /\ mode \in ModeChoices
    /\ OpenAI \in {"None", "OpenAI"}
    /\ environ \in Environs
    /\ kind = "none"
    /\ demo_args = <<>>
    /\ pc = "idle"
    /\ reply = NoReply
    /\ out = <<>>
    /\ requests = 0
    /\ demoCalls = 0

Next ==
    \/ RunRiskRadar
    \/ GenerateActionPlan
    \/ GenerateDoctorBrief
    \/ GenerateMessage
    \/ GenerateWellbeing
    \/ ModelReturns
    \/ ModelFails
    \/ Rerun

Spec == Init /\ [][Next]_vars

----------------------------------------------------------------------------
(* The generators on their own: a note is typed, then one generator is     *)
(* applied to it.                                                          *)

TypeFragment ==
    /\ pc = "idle"
    /\ typed < MaxFragments
    /\ \E f \in Fragments : note' = note \o f
    /\ typed' = typed + 1
    /\ UNCHANGED <<mode, OpenAI, environ, kind, demo_args, pc, reply, out, requests, demoCalls>>

Apply(k, args) ==
    /\ pc = "idle"
    /\ kind' = k
    /\ demo_args' = args
    /\ out' = demo_fn(k, args)
    /\ demoCalls' = demoCalls + 1
    /\ pc' = "returned"
    /\ UNCHANGED <<note, typed, mode, OpenAI, environ, reply, requests>>

ApplyRiskRadar == Apply("risk_radar", <<note>>)

ApplyActionPlanner == Apply("action_planner", <<note>>)

ApplyDoctorBrief == Apply("doctor_brief", <<note>>)

ApplyCareCircle ==
    \E audience \in AudienceChoices, tone \in ToneChoices :
        Apply("care_circle", <<note, audience, tone>>)

ApplyWellbeing == Apply("wellbeing", <<note>>)

GenInit ==
    /\ note = <<>> (* "" *)
    /\ typed = 0
    /\ mode = <<"F","o","r","c","e"," ","D","e","m","o"," ","M","o","d","e"," ","(","n","o"," ","A","P","I",")">> (* Force Demo Mode (no API) *)
    /\ OpenAI = "None"
    /\ environ = NoEnv
    /\ kind = "none"
    /\ demo_args = <<>>
    /\ pc = "idle"
    /\ reply = NoReply
    /\ out = <<>>
    /\ requests = 0
    /\ demoCalls = 0

GenNext ==
    \/ TypeFragment
    \/ ApplyRiskRadar
    \/ ApplyActionPlanner
    \/ ApplyDoctorBrief
    \/ ApplyCareCircle
    \/ ApplyWellbeing

GenSpec == GenInit /\ [][GenNext]_vars

----------------------------------------------------------------------------
(* What the claims speak of                                                *)

\* the invocation of tool k has returned
Ran(k) == pc = "returned" /\ kind = k

\* the returned text has the literal piece c
HasPiece(c) == \E i \in 1..Len(out) : out[i] = c

\* phrase (in lower case) occurs in text, whatever the case of text's letters
SameLetter(c, l) == c = l \/ (IndexIn(l, LowerLetters) > 0
                               /\ c = UpperLetters[IndexIn(l, LowerLetters)])

ContainsCI(text, phrase) ==
    \E i \in 1..(Len(text) - Len(phrase) + 1) :
        \A k \in 1..Len(phrase) : SameLetter(text[i + k - 1], phrase[k])

\* the number of newline-separated lines of a text
LineCount(text) == 1 + Cardinality({i \in 1..Len(text) : text[i] = "\n"})

UrgencyLine(level) == <<"**Urgency level:** **">> \o level \o <<"**">>

\* the sidebar's three conditions, read off the state
ForcedDemo == mode = <<"F","o","r","c","e"," ","D","e","m","o"," ","M","o","d","e"," ","(","n","o"," ","A","P","I",")">> (* Force Demo Mode (no API) *)

LibraryLoaded == OpenAI # "None"

CredentialPresent == /\ "OPENAI_API_KEY" \in DOMAIN environ
                     /\ Len(environ["OPENAI_API_KEY"]) > 0

ModelEnabled == ~ForcedDemo /\ LibraryLoaded /\ CredentialPresent

\* the report of the generator of the tab pressed, on the tab's own arguments
HeuristicReport ==
    CASE kind = "risk_radar"     -> demo_risk_radar(note)
      [] kind = "action_planner" -> demo_action_planner(note)
      [] kind = "doctor_brief"   -> demo_doctor_brief(note)
      [] kind = "care_circle"    -> demo_care_circle_msg(note, demo_args[2], demo_args[3])
      [] kind = "wellbeing"      -> demo_caregiver_wellbeing(demo_args[1])
      [] OTHER                   -> <<>>

----------------------------------------------------------------------------
(* C1: the model is requested only when the run mode is not Force Demo     *)
(* Mode, the provider library is loaded and OPENAI_API_KEY is non-empty;   *)
(* in every other configuration no request is made and the invocation      *)
(* returns the report of the heuristic generator of the tab pressed.       *)
C1_ModelOnlyWhenEnabled ==
    /\ requests > 0 => ModelEnabled
    /\ (~ModelEnabled /\ pc # "idle") =>
          /\ requests = 0
          /\ reply = NoReply
          /\ pc = "returned"
          /\ demoCalls = 1
          /\ out = HeuristicReport

\* forced Demo Mode with the library loaded and a key present: the heuristic ran
C1_Witness ==
    /\ ForcedDemo /\ LibraryLoaded /\ CredentialPresent
    /\ Ran("care_circle")
    /\ out = HeuristicReport

(* C2, as claimed: a failed request returns the heuristic report when the  *)
(* failure is a quota or rate-limit condition, and raises the error, with  *)
(* no heuristic report, for any other failure.                             *)
C2_FallbackOnlyOnQuota ==
    reply.status = "error" =>
        IF reply.condition \in {"quota", "rate_limit"}
        THEN pc = "returned" /\ demoCalls = 1 /\ out = HeuristicReport
        ELSE pc = "raised" /\ demoCalls = 0 /\ out = <<>>

\* out is content without its leading and trailing whitespace
IsTrimOf(o, content) ==
    \E a, b \in 0..Len(content) :
        /\ a + b <= Len(content)
        /\ \A i \in 1..a : IsSpace(content[i])
        /\ \A i \in (Len(content) - b + 1)..Len(content) : IsSpace(content[i])
        /\ o = SubSeq(content, a + 1, Len(content) - b)
        /\ o # <<>> => ~IsSpace(o[1]) /\ ~IsSpace(o[Len(o)])

(* C10: in one invocation the model is requested at most once and the      *)
(* heuristic generator is invoked at most once; the invocation ends with   *)
(* the model's text returned, the heuristic report returned or the model's *)
(* error raised, and never two of them; the heuristic runs after a request *)
(* only if the request failed; after a successful reply it never runs and  *)
(* the reply's text, trimmed, is what is returned.                         *)
C10_OneAttemptOneOutcome ==
    /\ requests <= 1 /\ demoCalls <= 1
    /\ pc = "awaiting" => requests = 1 /\ demoCalls = 0 /\ reply = NoReply
    /\ pc = "returned" =>
          \/ reply.status = "ok" /\ demoCalls = 0 /\ requests = 1
          \/ reply.status # "ok" /\ demoCalls = 1 /\ out = HeuristicReport
    /\ pc = "raised" => reply.status = "error" /\ demoCalls = 0 /\ out = <<>>
    /\ (requests = 1 /\ demoCalls = 1) => reply.status = "error"
    /\ reply.status = "ok" =>
          /\ demoCalls = 0
          /\ pc = "returned"
          /\ IsTrimOf(out, reply.content)

\* a reply with whitespace around it was returned trimmed
C10_Witness ==
    /\ pc = "returned"
    /\ reply.status = "ok"
    /\ out # <<>>
    /\ out # reply.content

----------------------------------------------------------------------------
(* Risk Radar                                                              *)

\* the severity labels the report shows
OnlyMonitorShown == /\ HasPiece("Monitor")
                    /\ ~HasPiece("Monitor closely")
                    /\ ~HasPiece("Consider urgent care")

(* C3, as claimed: when the findings are not empty and all of severity     *)
(* monitor, the urgency reported is moderate.                              *)
C3_MonitorOnlyIsModerate ==
    (Ran("risk_radar") /\ OnlyMonitorShown) => In(UrgencyLine(<<"M","O","D","E","R","A","T","E">> (* MODERATE *)), out)

(* C3, amended: when the findings are not empty and all of severity        *)
(* monitor, the urgency reported is low, with the generic next steps.      *)
C3_MonitorOnlyIsLow ==
    (Ran("risk_radar") /\ OnlyMonitorShown) =>
        /\ In(UrgencyLine(<<"L","O","W">> (* LOW *)), out)
        /\ HasPiece("- Monitor symptoms and repeat key measurements if available (e.g., BP).")

\* a report whose only finding is the low-hydration one
C3_Witness ==
    /\ Ran("risk_radar")
    /\ OnlyMonitorShown
    /\ HasPiece("Low hydration risk")

EmergencyPhrase(text) == \/ ContainsCI(text, <<"c","h","e","s","t"," ","p","a","i","n">> (* chest pain *))
                         \/ ContainsCI(text, <<"f","a","i","n","t","e","d">> (* fainted *))
                         \/ ContainsCI(text, <<"p","a","s","s","e","d"," ","o","u","t">> (* passed out *))

(* C4: a note with "chest pain", "fainted" or "passed out" in it, in any   *)
(* case and whatever else it holds, is reported with urgency high and the  *)
(* urgent-care suggestion in place of the generic next steps.              *)
C4_EmergencyIsHigh ==
    (Ran("risk_radar") /\ EmergencyPhrase(note)) =>
        /\ In(UrgencyLine(<<"H","I","G","H">> (* HIGH *)), out)
        /\ HasPiece("Potential emergency symptom")
        /\ In(<<"### What to do next (general)", "\n",
                "- Consider urgent medical care / call clinician, especially if symptoms worsen.">>, out)
        /\ ~HasPiece("- Monitor symptoms and repeat key measurements if available (e.g., BP).")
        /\ ~HasPiece("- Encourage hydration/food if appropriate and safe for the person.")

\* an emergency phrase in capitals beside a weaker signal
C4_Witness ==
    /\ Ran("risk_radar")
    /\ EmergencyPhrase(note)
    /\ ~In(<<"c","h","e","s","t"," ","p","a","i","n">> (* chest pain *), note) /\ ~In(<<"f","a","i","n","t","e","d">> (* fainted *), note) /\ ~In(<<"p","a","s","s","e","d"," ","o","u","t">> (* passed out *), note)
    /\ HasPiece("Monitor closely")
    /\ In(UrgencyLine(<<"H","I","G","H">> (* HIGH *)), out)

\* the readings of a note as C8 first words them: 2-3 digits, a slash, 2-3 digits
PlainAt(text, i, n1, n2) ==
    /\ AllDigits(text, i, n1)
    /\ i + n1 <= Len(text) /\ text[i + n1] = "/"
    /\ AllDigits(text, i + n1 + 1, n2)

PlainStarts(text) == {i \in 1..Len(text) : \E n1, n2 \in {2, 3} : PlainAt(text, i, n1, n2)}

\* the leftmost of them, at its longest: <<systolic, diastolic, text>>
FirstPlain(text) ==
    LET i  == CHOOSE m \in PlainStarts(text) : \A o \in PlainStarts(text) : m <= o
        n1 == CHOOSE n \in {2, 3} : \E n2 \in {2, 3} : PlainAt(text, i, n, n2)
        n2 == IF PlainAt(text, i, n1, 3) THEN 3 ELSE 2
    IN  <<int(SubSeq(text, i, i + n1 - 1)),
          int(SubSeq(text, i + n1 + 1, i + n1 + n2)),
          SubSeq(text, i, i + n1 + n2)>>

\* the readings as the pattern has them: text[i..j] is n1 digits, whitespace,
\* a slash, whitespace, n2 digits, between two word boundaries
ReadingAt(text, i, j, n1, n2) ==
    /\ WordBoundary(text, i) /\ WordBoundary(text, j + 1)
    /\ AllDigits(text, i, n1)
    /\ j - n2 + 1 > i + n1
    /\ AllDigits(text, j - n2 + 1, n2)
    /\ \E s \in (i + n1)..(j - n2) :
          /\ text[s] = "/"
          /\ \A k \in ((i + n1)..(j - n2)) \ {s} : IsSpace(text[k])

Readings(text) ==
    {r \in (1..Len(text)) \X (1..Len(text)) \X {2, 3} \X {2, 3} :
        ReadingAt(text, r[1], r[2], r[3], r[4])}

FirstReading(text) ==
    LET r == CHOOSE m \in Readings(text) : \A o \in Readings(text) : m[1] <= o[1]
    IN  <<int(SubSeq(text, r[1], r[1] + r[3] - 1)),
          int(SubSeq(text, r[2] - r[4] + 1, r[2])),
          SubSeq(text, r[1], r[2])>>

IsLow(bp) == bp[1] <= 90 \/ bp[2] <= 60

LowBPShown == HasPiece("Low blood pressure reading")

LowBPLine(raw) == <<"- **", "Low blood pressure reading", "** -- *", "Monitor closely",
                    "*  ", "\n", "  ", "Evidence: '">> \o raw \o <<"'">>

(* C8, as claimed: in a note that holds 2-3 digits, a slash and 2-3 digits *)
(* the first such occurrence is the reading: the low-BP finding is         *)
(* reported exactly when it has systolic <= 90 or diastolic <= 60, and     *)
(* quotes it.                                                              *)
C8_FirstPlainPatternDecides ==
    (Ran("risk_radar") /\ PlainStarts(note) # {}) =>
        /\ LowBPShown <=> IsLow(FirstPlain(note))
        /\ LowBPShown => In(LowBPLine(FirstPlain(note)[3]), out)

(* C8, amended: the readings are the occurrences of 2-3 digits, optional   *)
(* whitespace, a slash, optional whitespace, 2-3 digits that stand between *)
(* word boundaries; the leftmost one decides: the low-BP finding (monitor  *)
(* closely) is reported exactly when it has systolic <= 90 or diastolic    *)
(* <= 60, and quotes it verbatim; with no such occurrence there is no      *)
(* finding; later readings change nothing.                                 *)
C8_FirstDelimitedReadingDecides ==
    Ran("risk_radar") =>
        IF Readings(note) = {} THEN ~LowBPShown
        ELSE /\ LowBPShown <=> IsLow(FirstReading(note))
             /\ LowBPShown => In(LowBPLine(FirstReading(note)[3]), out)

\* two readings, the first one normal and a later one low: no finding
C8_Witness ==
    /\ Ran("risk_radar")
    /\ \E r, q \in Readings(note) : r[1] < q[1]
    /\ ~IsLow(FirstReading(note))
    /\ \E q \in Readings(note) :
          int(SubSeq(note, q[1], q[1] + q[3] - 1)) <= 90
    /\ ~LowBPShown

----------------------------------------------------------------------------
(* Care Circle, Doctor Brief, Action Planner and the empty note            *)

\* the message body: the returned text after the header and the blank line
Body(text) ==
    LET blank == CHOOSE i \in 1..(Len(text) - 1) :
                    /\ text[i] = "\n" /\ text[i + 1] = "\n"
                    /\ \A j \in 1..(i - 1) : ~(text[j] = "\n" /\ text[j + 1] = "\n")
    IN  SubSeq(text, blank + 2, Len(text))

(* C5, as claimed: the body of the Care Circle message has at most 7       *)
(* newline-separated lines, whatever the note, the audience and the tone.  *)
C5_BodyAtMostSevenLines ==
    Ran("care_circle") => LineCount(Body(out)) <= 7

HydrationPhrase(text) == \/ ContainsCI(text, <<"v","e","r","y"," ","l","i","t","t","l","e"," ","w","a","t","e","r">> (* very little water *))
                         \/ ContainsCI(text, <<"d","r","a","n","k"," ","l","e","s","s">> (* drank less *))
                         \/ ContainsCI(text, <<"d","e","h","y","d","r">> (* dehydr *))

(* C6, as claimed: the Doctor Brief states a low BP reading, dizziness, a  *)
(* missed dose, reduced hydration, increased fatigue or withdrawn mood     *)
(* only when the note holds the matching reading or phrase.                *)
C6_BriefStatesOnlyWhatIsFound ==
    Ran("doctor_brief") =>
        /\ HasPiece("- Low BP reading reported: ") =>
              Readings(note) # {} /\ IsLow(FirstReading(note))
        /\ (HasPiece("Dizziness: yes (reported)") \/ HasPiece("- Dizziness when standing reported"))
              => ContainsCI(note, <<"d","i","z","z","y">> (* dizzy *))
        /\ (HasPiece("Missed medication dose: yes (reported)")
              \/ HasPiece("- Missed a medication dose reported"))
              => ContainsCI(note, <<"m","i","s","s","e","d">> (* missed *))
        /\ HasPiece("- Reduced hydration reported") => HydrationPhrase(note)
        /\ HasPiece("Hydration appears reduced. Mood described as lower/withdrawn.")
              => HydrationPhrase(note) /\ ContainsCI(note, <<"w","i","t","h","d","r","a","w","n">> (* withdrawn *))
        /\ HasPiece("Caregiver reports increased fatigue today with reduced intake/activity. ")
              => ContainsCI(note, <<"t","i","r","e","d">> (* tired *)) \/ ContainsCI(note, <<"f","a","t","i","g","u","e">> (* fatigue *))

(* C9, as claimed: the Action Planner has the offer-fluids bullet under Do *)
(* now and the hydration-tracking bullet under Monitor for exactly the     *)
(* notes that hold "very little water", "drank less" or "dehydr", the      *)
(* notes for which Risk Radar reports the low-hydration finding.           *)
C9_PlannerHydrationAsRiskRadar ==
    Ran("action_planner") =>
        /\ HydrationPhrase(note) <=>
              HasPiece("Offer fluids in small amounts (if appropriate), and note intake.")
        /\ HydrationPhrase(note) <=>
              HasPiece("Urine frequency/color (if comfortable) as a hydration clue.")
        /\ AnyLevel(RiskFindings(note), "monitor") <=>
              HasPiece("Offer fluids in small amounts (if appropriate), and note intake.")

\* the generator was given the empty string
OnEmpty(k) == Ran(k) /\ demo_args[1] = <<>> (* "" *)

\* no generator can fail: every severity has its label, every reading its three parts
NothingRaises(text) ==
    /\ \A i \in 1..Len(RiskFindings(text)) : RiskFindings(text)[i][3] \in DOMAIN Tag
    /\ _find_bp(text) # None => Len(_find_bp(text)) = 3

(* C7, as claimed: on the empty string every generator returns a report in *)
(* which every signal-dependent section holds a bullet or phrase; here the *)
(* Doctor Brief's section of pertinent positives.                          *)
C7_EverySectionHasABullet ==
    OnEmpty("doctor_brief") =>
        ~In(<<"### Pertinent positives", "\n", "\n">>, out)

(* C7, amended: the five generators return a report on every input, and on *)
(* the empty string every signal-dependent section holds its generic       *)
(* bullet or phrase, but for the Doctor Brief's "Pertinent positives",     *)
(* which has no fallback and is empty.                                     *)
C7_FallbacksButPertinentPositives ==
    /\ pc = "returned" => out # <<>> /\ NothingRaises(demo_args[1])
    /\ OnEmpty("risk_radar") =>
          /\ In(UrgencyLine(<<"L","O","W">> (* LOW *)), out)
          /\ HasPiece("- No clear risk signals detected from the note.")
    /\ OnEmpty("action_planner") =>
          /\ In(<<"### Do now", "\n", "- ",
                  "Ensure comfort and safety; address immediate needs.", "\n">>, out)
          /\ In(<<"### Monitor", "\n", "- ",
                  "Track symptoms + timing through the day.", "\n">>, out)
          /\ In(<<"### Confirm", "\n", "- ",
                  "Confirm meds taken/missed and any measurements taken.", "\n">>, out)
    /\ OnEmpty("doctor_brief") =>
          /\ In(<<"BP: not provided", ". ", "Dizziness: not reported", ". ",
                  "Missed medication dose: not reported", ". ">>, out)
          /\ In(<<"### Pertinent positives", "\n", "\n", "### Questions for clinician">>, out)
    /\ OnEmpty("care_circle") =>
          /\ In(<<"Quick update:", "\n", "- Next steps: encourage fluids/food if appropriate, recheck BP later, and monitor symptoms.">>, Body(out))
    /\ OnEmpty("wellbeing") =>
          /\ In(<<"### Signals (only if present)", "\n",
                  "- No explicit caregiver strain language detected in the note.", "\n">>, out)

\* the Action Planner on the empty string
C7_Witness ==
    /\ OnEmpty("action_planner")
    /\ HasPiece("Track symptoms + timing through the day.")

====
